---- MODULE Spec2Model ----
(***************************************************************************)
(* Restart-safe recovery protocol (recovery.c) and raw-partition image     *)
(* writer (mtdutils/flash_image.c).                                        *)
(*                                                                         *)
(* Text is modelled as sequences of one-character strings, so that the     *)
(* strtok / fgets / strlcat conversions are computed, not assumed.         *)
(* The capacities of the program (MAX_ARGS, MAX_ARG_LENGTH, the size of    *)
(* the recovery field, HEADER_SIZE) are scaled down: the program's values  *)
(* are 100, 4096, 1024 and 2048.                                           *)
(***************************************************************************)
EXTENDS Integers, Sequences, FiniteSets, TLC

VARIABLES
    \* ---- durable state of the device (survives a power cycle)
    bcb,          \* bootloader control block: [command, status, recovery]
    cmdfile,      \* CACHE:recovery/command  [exists, data]
    intentfile,   \* CACHE:recovery/intent   [exists, data]
    \* ---- the recovery process (lost on a power cycle)
    pc,           \* position of the device / of main()
    procArgs,     \* argv[1..] the process was started with
    args,         \* argv[1..] after get_args
    status,       \* INSTALL_SUCCESS / INSTALL_ERROR
    fwPending,    \* firmware_update_pending()
    menu,         \* which menu is shown while parked
    menuActs,     \* menu actions taken in this run (bounded)
    finIntent,    \* finish_recovery: the send_intent parameter
    finRet,       \* finish_recovery: where the call returns to
    \* ---- history of the run, for the properties
    readCmd,      \* get_args of this run opened the command file
    resume,       \* this run was started by a restart of an armed run
    armed,        \* get_args wrote the BCB and no finish_recovery reset it since
    armedA,       \* the list resolved by the run that armed the BCB
    resetCount,   \* finish_recovery resets of the BCB in this run
    parked,       \* this run entered prompt_and_wait
    resetDone,    \* a finish_recovery reset committed since the last request
    fwWrote,      \* maybe_install_firmware_update rewrote the BCB since the last reset
    finPrev,      \* durable state left by the previous finish_recovery call
    bootRead,     \* the record get_args of this run worked on after its read
    faults,       \* the control-block transfers that failed in this run
    did,          \* what main's dispatch called in this run, with the results
    textVisible,  \* ui_text_visible() as main saw it
    nFaults,      \* calls with a failing control-block transfer so far (bounded)
    acted,        \* an action was executed since finish_recovery last removed the command file
    tmpLen,       \* bytes in the transient log of this run (bounded)
    tmplog_offset, \* finish_recovery: the static read offset into the transient log
    logAppended,  \* positions of the transient-log bytes appended to the persistent log in this run
    \* ---- the flashing tool
    part,         \* partition bytes
    image,        \* image file bytes
    imgExists,    \* the image file has not been unlinked
    blockSize,    \* erase block size of the partition
    deleteImage,  \* -d
    fpc,          \* position of flash_image main()
    header,       \* char header[HEADER_SIZE], first headerlen bytes
    wbuf,         \* bytes handed to the open write session, not yet in a whole block
    woff,         \* partition offset of the next block of the open write session
    fdpos,        \* read offset in the image file
    left,         \* bytes of the first block still to pad
    startDiff,    \* the partition header differed from the image header at invocation start
    attempts,     \* interrupted invocations so far (bounded)
    initDiff,     \* the partition header differed from the image header before the first invocation
    completed,    \* an invocation has run to its exit
    startPart,    \* the partition at invocation start
    startImg,     \* the image file existed at invocation start
    prevOk,       \* the invocation follows at once on one that returned 0
    opened,       \* this invocation opened a write session
    argv,         \* the arguments of the invocation, after the program name
    fail,         \* the step at which an I/O call of this invocation failed, and the state then
    checkFailed,  \* the read of the partition header failed in this invocation
    sess,         \* the write sessions this invocation opened: bytes handed over, closed or not
    ropen         \* the read session of the header check is open

rvars == <<bcb, cmdfile, intentfile, pc, procArgs, args, status, fwPending, menu,
           menuActs, finIntent, finRet, readCmd, resume, armed, armedA, resetCount,
           parked, resetDone, fwWrote, finPrev, bootRead, faults, did, textVisible,
           nFaults, acted, tmpLen, tmplog_offset, logAppended>>
fvars == <<part, image, imgExists, blockSize, deleteImage, fpc, header, wbuf, woff,
           fdpos, left, startDiff, attempts, initDiff, completed, startPart, startImg,
           prevOk, opened, argv, fail, checkFailed, sess, ropen>>
vars == <<rvars, fvars>>

\* ------------------------------------------------------------------ bounds
MAX_ARGS == 4          \* scaled; argv holds the program name and MAX_ARGS-1 arguments
MAX_ARG_LENGTH == 24   \* scaled; fgets buffer of get_args
RecoverySize == 40     \* scaled; sizeof(boot.recovery)
MaxMenuActs == 2       \* menu actions followed in one parked run
HEADER_SIZE == 2       \* scaled; size of header to compare for equality
MaxImageLen == 4       \* longest image file
MaxBlock == 3          \* largest erase block size of a partition
MaxAttempts == 2       \* invocations of the flashing tool cut short by power loss
MaxLog == 2            \* bytes a run writes to its transient log
MaxFaults == 1         \* calls in which a transfer of the control block fails

\* ------------------------------------------------------------------ text
Min(a, b) == IF a < b THEN a ELSE b
Max(a, b) == IF a > b THEN a ELSE b

NL == "\n"
CR == "\r"
FF == "<FF>"     \* an erased-flash byte 0xFF

S_recovery == <<"r","e","c","o","v","e","r","y">>
S_wipe_data == <<"-","-","w","i","p","e","_","d","a","t","a">>
S_wipe_cache == <<"-","-","w","i","p","e","_","c","a","c","h","e">>
S_update_package == <<"-","-","u","p","d","a","t","e","_","p","a","c","k","a","g","e">>
S_send_intent == <<"-","-","s","e","n","d","_","i","n","t","e","n","t">>

Take(s, n) == SubSeq(s, 1, Min(Len(s), n))
Drop(s, n) == SubSeq(s, n + 1, Len(s))
HasPrefix(s, p) == Len(s) >= Len(p) /\ SubSeq(s, 1, Len(p)) = p

\* index of the first character of s that is in D, Len(s)+1 if there is none
FirstIn(s, D) ==
    LET hits == {i \in 1..Len(s) : s[i] \in D}
    IN  IF hits = {} THEN Len(s) + 1 ELSE CHOOSE i \in hits : \A j \in hits : i <= j

\* strtok(s, D), strtok(NULL, D), ...: the maximal runs of non-delimiters
RECURSIVE Tokens(_, _)
Tokens(s, D) ==
    IF s = <<>> THEN <<>>
    ELSE IF Head(s) \in D THEN Tokens(Tail(s), D)
    ELSE LET n == FirstIn(s, D)
         IN  <<SubSeq(s, 1, n - 1)>> \o Tokens(Drop(s, n), D)

\* strlcat(dst, src, size): dst keeps at most size-1 characters
Strlcat(dst, src, size) == Take(dst \o src, Max(size - 1, Len(dst)))

\* ------------------------------------------------------------------ get_args
ZeroBCB == [command |-> "", status |-> "", recovery |-> <<>>]
NoFile == [exists |-> FALSE, data |-> <<>>]
File(d) == [exists |-> TRUE, data |-> d]
NoIntent == [set |-> FALSE, val |-> <<>>]

\* a get_args that does not compare the first token with "recovery"
BcbArgsAnyFirst(recovery) ==
    LET toks == Tokens(Take(recovery, RecoverySize - 1), {NL})
    IN  SubSeq(toks, 2, Min(Len(toks), MAX_ARGS))

\* lines 173-187: the arguments the control block supplies
BcbArgs(recovery) ==
    LET toks == Tokens(Take(recovery, RecoverySize - 1), {NL})
    IN  IF toks # <<>> /\ toks[1] = S_recovery
        THEN SubSeq(toks, 2, Min(Len(toks), MAX_ARGS))
        ELSE <<>>

\* fgets(buf, MAX_ARG_LENGTH, fp): the number of characters it consumes
FgetsLen(f) ==
    LET lim == Min(Len(f), MAX_ARG_LENGTH - 1)
        nl == FirstIn(Take(f, lim), {NL})
    IN  Min(nl, lim)

\* lines 198-201: one argument per fgets; strdup(strtok(buf, "\r\n")) of a
\* buffer holding only CR/LF dereferences NULL
RECURSIVE FileArgs(_, _)
FileArgs(f, n) ==
    IF n = 0 \/ f = <<>> THEN [crash |-> FALSE, args |-> <<>>]
    ELSE LET k == FgetsLen(f)
             toks == Tokens(Take(f, k), {CR, NL})
         IN  IF toks = <<>> THEN [crash |-> TRUE, args |-> <<>>]
             ELSE LET rest == FileArgs(Drop(f, k), n - 1)
                  IN  [crash |-> rest.crash, args |-> <<toks[1]>> \o rest.args]

\* lines 211-216: "recovery\n" and then every argument and a newline, by strlcat
RECURSIVE CatArgs(_, _)
CatArgs(dst, as) ==
    IF as = <<>> THEN dst
    ELSE CatArgs(Strlcat(Strlcat(dst, Head(as), RecoverySize), <<NL>>, RecoverySize),
                 Tail(as))

\* a rewrite that starts from a cleared structure
WriteBackClearsStatus(boot, as) ==
    [command |-> "boot-recovery",
     status |-> "",
     recovery |-> CatArgs(Strlcat(<<>>, S_recovery \o <<NL>>, RecoverySize), as)]

\* lines 210-217: command and recovery are set in the structure that was read
WriteBack(boot, as) ==
    [command |-> "boot-recovery",
     status |-> boot.status,
     recovery |-> CatArgs(Strlcat(<<>>, S_recovery \o <<NL>>, RecoverySize), as)]

\* a get_args that looks in the control block before the command line
ResolveArgsBcbFirst(pargs, boot, file) ==
    LET b == BcbArgs(boot.recovery)
        fromBcb == IF b # <<>> THEN b ELSE pargs
        useFile == fromBcb = <<>> /\ file.exists
        fa == IF useFile THEN FileArgs(file.data, MAX_ARGS - 1)
              ELSE [crash |-> FALSE, args |-> fromBcb]
    IN  [args |-> fa.args, readCmd |-> fromBcb = <<>>, crash |-> fa.crash,
         boot |-> WriteBack(boot, fa.args)]

\* a get_args that stops at a control block whose first token is "recovery"
ResolveArgsStopsAtBcb(pargs, boot, file) ==
    LET toks == Tokens(Take(boot.recovery, RecoverySize - 1), {NL})
        isRec == pargs = <<>> /\ toks # <<>> /\ toks[1] = S_recovery
        fromBcb == IF pargs = <<>> THEN BcbArgs(boot.recovery) ELSE pargs
        useFile == fromBcb = <<>> /\ file.exists /\ ~isRec
        fa == IF useFile THEN FileArgs(file.data, MAX_ARGS - 1)
              ELSE [crash |-> FALSE, args |-> fromBcb]
    IN  [args |-> fa.args, readCmd |-> fromBcb = <<>> /\ ~isRec, crash |-> fa.crash,
         boot |-> WriteBack(boot, fa.args)]

\* get_args as a function of what it reads: the resolved list, whether the
\* command file was opened, whether it crashed, and the record it writes
ResolveArgs(pargs, boot, file) ==
    LET fromBcb == IF pargs = <<>> THEN BcbArgs(boot.recovery) ELSE pargs
        useFile == fromBcb = <<>> /\ file.exists
        fa == IF useFile THEN FileArgs(file.data, MAX_ARGS - 1)
              ELSE [crash |-> FALSE, args |-> fromBcb]
    IN  [args |-> fa.args, readCmd |-> fromBcb = <<>>, crash |-> fa.crash,
         boot |-> WriteBack(boot, fa.args)]


\* ------------------------------------------------------------------ main: options
A_wipe_data == S_wipe_data
A_wipe_cache == S_wipe_cache
A_package == S_update_package \o <<"=","C",":","u">>
A_intent == S_send_intent \o <<"=","o","k">>

\* the argument of the last "--name=value" in the list (getopt_long, lines 1471-1482)
OptVal(as, name) ==
    LET P == name \o <<"=">>
        idx == {i \in 1..Len(as) : HasPrefix(as[i], P)}
    IN  IF idx = {} THEN NoIntent
        ELSE LET m == CHOOSE i \in idx : \A j \in idx : j <= i
             IN  [set |-> TRUE, val |-> Drop(as[m], Len(P))]

Options(as) ==
    LET w == \E i \in 1..Len(as) : as[i] = S_wipe_data
        c == \E i \in 1..Len(as) : as[i] = S_wipe_cache
    IN  [send_intent |-> OptVal(as, S_send_intent),
         update_package |-> OptVal(as, S_update_package),
         wipe_data |-> w,
         wipe_cache |-> w \/ c]

\* ------------------------------------------------------------------ inputs
Lines(ls) == IF ls = <<>> THEN <<>> ELSE
    LET F[i \in 1..Len(ls)] == IF i = 1 THEN ls[1] \o <<NL>> ELSE F[i-1] \o ls[i] \o <<NL>>
    IN  F[Len(ls)]

\* an update package whose path makes the line longer than MAX_ARG_LENGTH
A_long_package == A_package \o <<"u", "u", "u", "u", "u">>

\* what the main system writes to the command file before it reboots into recovery
CmdFiles ==
    { File(Lines(<<A_wipe_data>>)),
      File(Lines(<<A_long_package, A_wipe_cache>>)),
      File(Lines(<<A_wipe_cache>>)),
      File(Lines(<<A_package>>)),
      File(Lines(<<A_intent, A_wipe_data>>)),
      File(Lines(<<A_package, A_intent>>)),
      File(A_wipe_cache \o <<CR, NL>>),
      File(<<>>),
      File(<<NL>>) }

\* arguments on the command line of a directly started recovery
DirectArgs ==
    { <<A_wipe_cache>>, <<A_package, A_intent>>, <<A_package, A_wipe_data>>,
      <<A_wipe_data, A_wipe_cache>>, <<A_intent>> }

\* what the control block holds when the device is first seen
InitBCBs ==
    { ZeroBCB,
      [command |-> "", status |-> "", recovery |-> <<FF, FF>>],
      [command |-> "", status |-> "", recovery |-> Lines(<<S_recovery>>)],
      [command |-> "", status |-> "OKAY", recovery |-> <<"x">>],
      [command |-> "", status |-> "", recovery |-> Lines(<<S_recovery, <<"a">>, <<"b">>, <<"c">>, <<"d">> >>)],
      [command |-> "", status |-> "", recovery |-> <<NL>> \o Lines(<<S_recovery, A_wipe_cache>>)],
      [command |-> "", status |-> "", recovery |-> Lines(<<S_recovery, <<>>, A_wipe_cache>>)],
      [command |-> "", status |-> "", recovery |-> Lines(<<S_recovery \o <<"x">>, A_wipe_cache>>)] }

\* ------------------------------------------------------------------ boot
\* lines 76-116: the bootloader enters recovery while the BCB command is
\* boot-recovery, installs firmware on update-radio/hboot, and otherwise boots
\* the main system
BootTarget(boot) ==
    IF boot.command = "boot-recovery" THEN "recovery"
    ELSE IF boot.command = "update-radio" THEN "firmware"
    ELSE "main"

Durable == [bcb |-> bcb, cmdfile |-> cmdfile, intentfile |-> intentfile]
NoPrev == [valid |-> FALSE, intent |-> NoIntent, durable |-> [bcb |-> ZeroBCB, cmdfile |-> NoFile, intentfile |-> NoFile]]

\* the state of a process is lost with the process
NoProcess(pargs) ==
    /\ procArgs' = pargs
    /\ args' = <<>>
    /\ status' = "SUCCESS"
    /\ fwPending' = FALSE
    /\ menu' = "none"
    /\ menuActs' = 0
    /\ finIntent' = NoIntent
    /\ finRet' = "none"
    /\ readCmd' = FALSE
    /\ resetCount' = 0
    /\ parked' = FALSE
    /\ finPrev' = NoPrev
    /\ bootRead' = ZeroBCB
    /\ faults' = {}
    /\ did' = <<>>
    /\ textVisible' = FALSE
    /\ acted' = FALSE
    /\ tmpLen' = 0
    /\ tmplog_offset' = 0
    /\ logAppended' = <<>>

\* the log files are left alone
UNCH_log == UNCHANGED <<tmpLen, tmplog_offset, logAppended>>

\* a fresh recovery process
StartRun(pargs) == pc' = "get_args" /\ NoProcess(pargs)

Boot ==
    LET t == BootTarget(bcb)
    IN  /\ IF t = "main"
           THEN /\ pc' = "main_sys"
                /\ resume' = FALSE
                /\ NoProcess(<<>>)
           ELSE /\ StartRun(<<>>)
                /\ resume' = armed
        \* step 8d-8e: the bootloader flashes the firmware and re-arms recovery
        /\ bcb' = IF t = "firmware" THEN [bcb EXCEPT !.command = "boot-recovery"] ELSE bcb
        /\ UNCHANGED <<cmdfile, intentfile, armed, armedA, resetDone, fwWrote, nFaults>>

\* power is lost while the recovery process runs
PowerLoss ==
    /\ pc \notin {"main_sys"}
    /\ Boot
    /\ UNCHANGED fvars

\* steps 1-3 of the scenarios: the main system writes the command file and
\* reboots into recovery; or the user enters recovery with no command file written
ExternalRequest ==
    /\ pc = "main_sys"
    /\ \E f \in CmdFiles \cup {cmdfile} : cmdfile' = f
    /\ StartRun(<<>>)
    /\ resume' = FALSE
    /\ resetDone' = FALSE
    /\ UNCHANGED <<bcb, intentfile, armed, armedA, fwWrote, nFaults>>
    /\ UNCHANGED fvars

\* recovery started with arguments on its command line
DirectInvoke ==
    /\ pc = "main_sys"
    /\ \E a \in DirectArgs : StartRun(a)
    /\ resume' = FALSE
    /\ resetDone' = FALSE
    /\ UNCHANGED <<bcb, cmdfile, intentfile, armed, armedA, fwWrote, nFaults>>
    /\ UNCHANGED fvars

\* ------------------------------------------------------------------ get_args
\* a read that leaves what it finds in the caller's structure
GetBootloaderMessageKeeps(dev, ok) == dev

\* lines 160-162: the structure is zeroed, and a read that fails leaves it so
GetBootloaderMessage(dev, ok) == IF ok THEN dev ELSE ZeroBCB

\* get_args when the read of the control block succeeds or not (rok) and the
\* write succeeds or not (wok); neither result is looked at (lines 162, 217)
GetArgsIO(rok, wok) ==
    /\ pc = "get_args"
    /\ nFaults' = IF rok /\ wok THEN nFaults ELSE nFaults + 1
    /\ LET boot == GetBootloaderMessage(bcb, rok)
           r == ResolveArgs(procArgs, boot, cmdfile)
           f == faults \cup (IF rok THEN {} ELSE {"read"})
       IN  /\ bootRead' = boot
           /\ IF r.crash
              THEN /\ pc' = "crashed"
                   /\ readCmd' = TRUE
                   /\ faults' = f
                   /\ UNCHANGED <<bcb, args, armed, armedA>>
              ELSE /\ pc' = "dispatch"
                   /\ args' = r.args
                   /\ readCmd' = r.readCmd
                   /\ faults' = f \cup (IF wok THEN {} ELSE {"write_get_args"})
                   /\ IF wok
                      THEN /\ bcb' = r.boot
                           /\ armed' = TRUE
                           /\ armedA' = IF resume THEN armedA ELSE r.args
                      ELSE UNCHANGED <<bcb, armed, armedA>>
    /\ UNCHANGED <<cmdfile, intentfile, procArgs, status, fwPending, menu, menuActs,
                   finIntent, finRet, resume, resetCount, parked, resetDone, fwWrote,
                   finPrev, did, textVisible, acted>>
    /\ UNCH_log
    /\ UNCHANGED fvars

GetArgs == GetArgsIO(TRUE, TRUE)

\* get_args with a failing read or a failing write of the control block
GetArgsFault ==
    /\ nFaults < MaxFaults
    /\ \E rok \in BOOLEAN, wok \in BOOLEAN : ~(rok /\ wok) /\ GetArgsIO(rok, wok)


\* ------------------------------------------------------------------ main: the action
\* the variables only get_args, boot and the finisher touch
UNCH_get == UNCHANGED <<procArgs, readCmd, resume, armedA, bootRead, nFaults>> /\ UNCH_log
UNCH_acts == UNCH_get /\ UNCHANGED <<faults, did, textVisible>>
UNCH_hist == UNCH_acts /\ UNCHANGED acted

\* a dispatch that looks at the wipe flags first
BranchWipeFirst(o) ==
    IF o.wipe_data \/ o.wipe_cache THEN "wipe"
    ELSE IF o.update_package.set THEN "install"
    ELSE "none"

\* lines 1502, 1505, 1510: the branch main takes
Branch(o) ==
    IF o.update_package.set THEN "install"
    ELSE IF o.wipe_data \/ o.wipe_cache THEN "wipe"
    ELSE "none"

Did(op, ok) == [op |-> op, ok |-> ok]

\* lines 1502-1513
Dispatch ==
    /\ pc = "dispatch"
    /\ LET o == Options(args)
           b == Branch(o)
       IN  IF b = "install"
           THEN \E ok \in BOOLEAN, fw \in BOOLEAN :
                    /\ status' = IF ok THEN "SUCCESS" ELSE "ERROR"
                    /\ fwPending' = (ok /\ fw)
                    /\ did' = Append(did, Did("install", ok))
                    /\ acted' = TRUE
                    /\ pc' = "decide"
           ELSE IF b = "wipe"
           THEN /\ pc' = IF o.wipe_data THEN "erase_data" ELSE "erase_cache"
                /\ UNCHANGED <<status, fwPending, did, acted>>
           ELSE /\ status' = "ERROR"
                /\ pc' = "decide"
                /\ UNCHANGED <<fwPending, did, acted>>
    /\ UNCHANGED <<bcb, cmdfile, intentfile, args, menu, menuActs, finIntent, finRet,
                   armed, resetCount, parked, resetDone, fwWrote, finPrev>>
    /\ UNCH_get /\ UNCHANGED <<faults, textVisible>>
    /\ UNCHANGED fvars

\* a wipe that gives up when the data erase fails
EraseDataFailFast ==
    /\ pc = "erase_data"
    /\ \E ok \in BOOLEAN :
          /\ status' = IF ok THEN status ELSE "ERROR"
          /\ did' = Append(did, Did("erase_data", ok))
          /\ pc' = IF ok THEN "erase_cache" ELSE "decide"
    /\ UNCHANGED <<bcb, cmdfile, intentfile, args, fwPending, menu, menuActs, finIntent,
                   finRet, armed, resetCount, parked, resetDone, fwWrote, finPrev>>
    /\ acted' = TRUE
    /\ UNCH_get /\ UNCHANGED <<faults, textVisible>>
    /\ UNCHANGED fvars

\* line 1508: erase_root("DATA:"); line 1509 follows whatever it returned
EraseData ==
    /\ pc = "erase_data"
    /\ \E ok \in BOOLEAN :
          /\ status' = IF ok THEN status ELSE "ERROR"
          /\ did' = Append(did, Did("erase_data", ok))
    /\ pc' = "erase_cache"
    /\ UNCHANGED <<bcb, cmdfile, intentfile, args, fwPending, menu, menuActs, finIntent,
                   finRet, armed, resetCount, parked, resetDone, fwWrote, finPrev>>
    /\ acted' = TRUE
    /\ UNCH_get /\ UNCHANGED <<faults, textVisible>>
    /\ UNCHANGED fvars

\* line 1509: erase_root("CACHE:"); formatting the cache root removes the
\* command file and the intent file, which live on it (lines 51-52)
EraseCache ==
    /\ pc = "erase_cache"
    /\ \E ok \in BOOLEAN :
          /\ did' = Append(did, Did("erase_cache", ok))
          /\ IF ok THEN /\ cmdfile' = NoFile
                        /\ intentfile' = NoFile
                        /\ UNCHANGED status
                   ELSE /\ status' = "ERROR"
                        /\ UNCHANGED <<cmdfile, intentfile>>
    /\ pc' = "decide"
    /\ finPrev' = NoPrev
    /\ UNCHANGED <<bcb, args, fwPending, menu, menuActs, finIntent, finRet,
                   armed, resetCount, parked, resetDone, fwWrote>>
    /\ acted' = TRUE
    /\ UNCH_get /\ UNCHANGED <<faults, textVisible>>
    /\ UNCHANGED fvars

\* a call of finish_recovery(intent) that returns to ret
CallFinish(intent, ret) ==
    /\ pc' = "fin_intent"
    /\ finIntent' = intent
    /\ finRet' = ret

\* a main that parks only on an error
ShouldParkOnError(st, vis) == st # "SUCCESS"

\* line 1516: status != INSTALL_SUCCESS || ui_text_visible()
ShouldPark(st, vis) == st # "SUCCESS" \/ vis

\* a main that finishes before the firmware check on the path that does not park
DecideFinishesFirst ==
    /\ pc = "decide"
    /\ \E vis \in BOOLEAN :
          /\ textVisible' = vis
          /\ IF ShouldPark(status, vis)
             THEN /\ parked' = TRUE
                  /\ menu' = "main"
                  /\ CallFinish(NoIntent, "menu_wait")
             ELSE /\ CallFinish(NoIntent, "fw_check")
                  /\ UNCHANGED <<parked, menu>>
    /\ UNCHANGED <<bcb, cmdfile, intentfile, args, status, fwPending, menuActs,
                   armed, resetCount, resetDone, fwWrote, finPrev>>
    /\ UNCH_get /\ UNCHANGED <<faults, did, acted>>
    /\ UNCHANGED fvars

\* a prompt_and_wait that shows its menu before any finish_recovery
DecideParksUnfinished ==
    /\ pc = "decide"
    /\ \E vis \in BOOLEAN :
          /\ textVisible' = vis
          /\ IF ShouldPark(status, vis)
             THEN /\ parked' = TRUE
                  /\ menu' = "main"
                  /\ pc' = "menu_wait"
             ELSE /\ pc' = "fw_check"
                  /\ UNCHANGED <<parked, menu>>
    /\ UNCHANGED <<bcb, cmdfile, intentfile, args, status, fwPending, menuActs,
                   finIntent, finRet, armed, resetCount, resetDone, fwWrote, finPrev>>
    /\ UNCH_get /\ UNCHANGED <<faults, did, acted>>
    /\ UNCHANGED fvars

\* lines 1515-1516: park for the user, or go on to the firmware check
Decide ==
    /\ pc = "decide"
    /\ \E vis \in BOOLEAN :
          /\ textVisible' = vis
          /\ IF ShouldPark(status, vis)
             THEN /\ parked' = TRUE
                  /\ menu' = "main"
                  /\ CallFinish(NoIntent, "menu_wait")
             ELSE /\ pc' = "fw_check"
                  /\ UNCHANGED <<parked, menu, finIntent, finRet>>
    /\ UNCHANGED <<bcb, cmdfile, intentfile, args, status, fwPending, menuActs,
                   armed, resetCount, resetDone, fwWrote, finPrev>>
    /\ UNCH_get /\ UNCHANGED <<faults, did, acted>>
    /\ UNCHANGED fvars

\* ------------------------------------------------------------------ finish_recovery
\* an intent file opened for appending
WriteIntentAppends(f, intent) == IF intent.set THEN File(f.data \o intent.val) ELSE f

\* lines 229-237: record the intent
WriteIntent(f, intent) == IF intent.set THEN File(intent.val) ELSE f

\* a reset that clears the arguments and leaves the command in place
ResetRecordKeepsCommand(boot) == [boot EXCEPT !.recovery = <<>>]

\* lines 259-261: the record finish_recovery writes
ResetRecord(boot) == ZeroBCB

\* an unlink that takes a missing file for an error
UnlinkNoEnoent(f) == [file |-> NoFile, warn |-> ~f.exists]

\* lines 264-269: unlink; [file after, warning logged]; ENOENT is not an error
Unlink(f) == [file |-> NoFile, warn |-> FALSE]

\* finish_recovery as a function of the durable state
FinishRecovery(d, intent) ==
    [bcb |-> ResetRecord(d.bcb),
     cmdfile |-> Unlink(d.cmdfile).file,
     intentfile |-> WriteIntent(d.intentfile, intent)]

\* the positions from..to, in order
Positions(from, to) == [i \in 1..(to - from + 1) |-> from + i - 1]

\* a copy that reads the transient log from its start
CopyLogFromStart(off, len) == [data |-> Positions(1, len), offset |-> len]

\* lines 248-252: fseek to the offset, copy to the end of the file, ftell
CopyLog(off, len) == [data |-> Positions(off + 1, len), offset |-> len]

\* lines 229-256, with the two log files opened or not (logOk)
FinIntentIO(logOk) ==
    /\ pc = "fin_intent"
    /\ intentfile' = WriteIntent(intentfile, finIntent)
    /\ IF logOk
       THEN /\ logAppended' = logAppended \o CopyLog(tmplog_offset, tmpLen).data
            /\ tmplog_offset' = CopyLog(tmplog_offset, tmpLen).offset
       ELSE UNCHANGED <<logAppended, tmplog_offset>>
    /\ pc' = "fin_bcb"
    /\ UNCHANGED <<bcb, cmdfile, args, status, fwPending, menu, menuActs, finIntent,
                   finRet, armed, resetCount, parked, resetDone, fwWrote, finPrev>>
    /\ UNCHANGED <<procArgs, readCmd, resume, armedA, bootRead, nFaults, faults, did,
                   textVisible, acted, tmpLen>>
    /\ UNCHANGED fvars

\* a finisher that removes the command file before it resets the control block
FinIntentUnlinksFirst ==
    /\ pc = "fin_intent"
    /\ intentfile' = WriteIntent(intentfile, finIntent)
    /\ cmdfile' = Unlink(cmdfile).file
    /\ pc' = "fin_bcb"
    /\ UNCHANGED <<bcb, args, status, fwPending, menu, menuActs, finIntent,
                   finRet, armed, resetCount, parked, resetDone, fwWrote, finPrev>>
    /\ UNCH_hist
    /\ UNCHANGED fvars

FinIntent == FinIntentIO(TRUE)

\* lines 241-242 and 245-246: a log file cannot be opened
FinLogFault == FinIntentIO(FALSE)

\* the run prints to stdout or stderr, which main reopened on the transient
\* log (lines 1449-1450)
LogAppend ==
    /\ pc \notin {"main_sys", "crashed"}
    /\ tmpLen < MaxLog
    /\ tmpLen' = tmpLen + 1
    /\ UNCHANGED <<bcb, cmdfile, intentfile, pc, procArgs, args, status, fwPending, menu,
                   menuActs, finIntent, finRet, readCmd, resume, armed, armedA, resetCount,
                   parked, resetDone, fwWrote, finPrev, bootRead, faults, did, textVisible,
                   nFaults, acted, tmplog_offset, logAppended>>
    /\ UNCHANGED fvars

\* lines 259-261 when set_bootloader_message succeeds or not (wok); the result
\* is not looked at
FinResetIO(wok) ==
    /\ pc = "fin_bcb"
    /\ IF wok
       THEN /\ bcb' = ResetRecord(bcb)
            /\ resetCount' = resetCount + 1
            /\ armed' = FALSE
            /\ resetDone' = TRUE
            /\ fwWrote' = FALSE
            /\ UNCHANGED faults
       ELSE /\ faults' = faults \cup {"write_finish"}
            /\ UNCHANGED <<bcb, resetCount, armed, resetDone, fwWrote>>
    /\ pc' = "fin_unlink"
    /\ nFaults' = IF wok THEN nFaults ELSE nFaults + 1
    /\ UNCHANGED <<cmdfile, intentfile, args, status, fwPending, menu, menuActs,
                   finIntent, finRet, parked, finPrev>>
    /\ UNCHANGED <<procArgs, readCmd, resume, armedA, bootRead, did, textVisible, acted>>
    /\ UNCH_log
    /\ UNCHANGED fvars

FinResetBCB == FinResetIO(TRUE)

\* the reset of the control block fails
FinResetFault == nFaults < MaxFaults /\ FinResetIO(FALSE)

FinUnlink ==
    /\ pc = "fin_unlink"
    /\ cmdfile' = Unlink(cmdfile).file
    /\ pc' = IF Unlink(cmdfile).warn THEN "fin_warn" ELSE "fin_sync"
    /\ acted' = FALSE
    /\ UNCHANGED <<bcb, intentfile, args, status, fwPending, menu, menuActs,
                   finIntent, finRet, armed, resetCount, parked, resetDone, fwWrote,
                   finPrev>>
    /\ UNCH_acts
    /\ UNCHANGED fvars

\* line 271, and the return to the caller
FinSync ==
    /\ pc \in {"fin_sync", "fin_warn"}
    /\ pc' = finRet
    /\ finPrev' = [valid |-> TRUE, intent |-> finIntent, durable |-> Durable]
    /\ UNCHANGED <<bcb, cmdfile, intentfile, args, status, fwPending, menu, menuActs,
                   finIntent, finRet, armed, resetCount, parked, resetDone, fwWrote>>
    /\ UNCH_hist
    /\ UNCHANGED fvars


\* ------------------------------------------------------------------ prompt_and_wait
SubMenus == {"wipe", "br", "partition", "other"}

UNCH_menu == UNCHANGED <<bcb, args, status, armed, resetCount, parked, resetDone, fwWrote>>

\* lines 1346-1347: ITEM_REBOOT, or BACK+GREEN
MenuReboot ==
    /\ pc = "menu_wait" /\ menu = "main"
    /\ pc' = "fw_check"
    /\ menu' = "none"
    /\ UNCHANGED <<cmdfile, intentfile, fwPending, menuActs, finIntent, finRet, finPrev>>
    /\ UNCH_menu /\ UNCH_hist
    /\ UNCHANGED fvars

\* lines 1349-1372: ITEM_USBTOGGLE runs "ums_toggle on"; when that worked the
\* session waits for the key that ends USB mass storage, and else the menu
\* is shown again (1426)
MenuUsbToggle ==
    /\ pc = "menu_wait" /\ menu = "main" /\ menuActs < MaxMenuActs
    /\ menuActs' = menuActs + 1
    /\ acted' = TRUE
    /\ \E ok \in BOOLEAN :
          IF ok THEN pc' = "usb_wait" /\ UNCHANGED <<finIntent, finRet>>
                ELSE CallFinish(NoIntent, "menu_wait")
    /\ UNCHANGED <<cmdfile, intentfile, fwPending, menu, finPrev>>
    /\ UNCH_menu /\ UNCH_acts
    /\ UNCHANGED fvars

\* lines 1372-1392 and 1426: GREEN runs "ums_toggle off", then the menu is
\* shown again
UsbDisable ==
    /\ pc = "usb_wait"
    /\ acted' = TRUE
    /\ CallFinish(NoIntent, "menu_wait")
    /\ UNCHANGED <<cmdfile, intentfile, fwPending, menu, menuActs, finPrev>>
    /\ UNCH_menu /\ UNCH_acts
    /\ UNCHANGED fvars

\* lines 1399-1417 with 790-794, 919-923, 1036-1040, 1202-1206: a sub-menu is
\* entered and calls finish_recovery before it waits for a key
MenuEnterSub ==
    /\ pc = "menu_wait" /\ menu = "main" /\ menuActs < MaxMenuActs
    /\ \E m \in SubMenus : menu' = m
    /\ menuActs' = menuActs + 1
    /\ CallFinish(NoIntent, "menu_wait")
    /\ UNCHANGED <<cmdfile, intentfile, fwPending, finPrev>>
    /\ UNCH_menu /\ UNCH_hist
    /\ UNCHANGED fvars

\* lines 624-705: choose_update_file returns at once when the sdcard cannot be
\* mounted or holds no zip file (prompt_and_wait then shows its menu again,
\* line 1426), and otherwise shows the file menu
MenuChooseUpdate ==
    /\ pc = "menu_wait" /\ menu = "main" /\ menuActs < MaxMenuActs
    /\ \E found \in BOOLEAN : menu' = IF found THEN "flash" ELSE "main"
    /\ menuActs' = menuActs + 1
    /\ CallFinish(NoIntent, "menu_wait")
    /\ UNCHANGED <<cmdfile, intentfile, fwPending, finPrev>>
    /\ UNCH_menu /\ UNCH_hist
    /\ UNCHANGED fvars

\* a file menu whose successful install makes prompt_and_wait return
FlashMenuKeyReboots ==
    /\ pc = "menu_wait" /\ menu = "flash"
    /\ \E install \in BOOLEAN, ok \in BOOLEAN, fw \in BOOLEAN :
          /\ fwPending' = IF install /\ ok THEN fw ELSE fwPending
          /\ acted' = install
          /\ IF install /\ ok
             THEN pc' = "fw_check" /\ menu' = "none" /\ UNCHANGED <<finIntent, finRet>>
             ELSE menu' = "main" /\ CallFinish(NoIntent, "menu_wait")
    /\ UNCHANGED <<cmdfile, intentfile, menuActs, finPrev>>
    /\ UNCH_menu /\ UNCH_acts
    /\ UNCHANGED fvars

\* lines 707-755: BACK, or a file chosen and the install confirmed or not;
\* every way out returns to prompt_and_wait
FlashMenuKey ==
    /\ pc = "menu_wait" /\ menu = "flash"
    /\ \E install \in BOOLEAN, ok \in BOOLEAN, fw \in BOOLEAN :
          /\ fwPending' = IF install /\ ok THEN fw ELSE fwPending
          /\ acted' = install
    /\ menu' = "main"
    /\ CallFinish(NoIntent, "menu_wait")
    /\ UNCHANGED <<cmdfile, intentfile, menuActs, finPrev>>
    /\ UNCH_menu /\ UNCH_acts
    /\ UNCHANGED fvars

\* lines 801-802 (and the like in the other sub-menus): BACK returns to
\* prompt_and_wait, which shows its menu again
SubMenuBack ==
    /\ pc = "menu_wait" /\ menu \in SubMenus
    /\ menu' = "main"
    /\ CallFinish(NoIntent, "menu_wait")
    /\ UNCHANGED <<cmdfile, intentfile, fwPending, menuActs, finPrev>>
    /\ UNCH_menu /\ UNCH_hist
    /\ UNCHANGED fvars

\* lines 820-834: ITEM_WIPE_DATA confirmed erases DATA: and CACHE:, then
\* returns to prompt_and_wait when the text is hidden, else shows the wipe menu again
SubMenuWipeData ==
    /\ pc = "menu_wait" /\ menu = "wipe" /\ menuActs < MaxMenuActs
    /\ \E ok \in BOOLEAN :
          IF ok THEN cmdfile' = NoFile /\ intentfile' = NoFile
                ELSE UNCHANGED <<cmdfile, intentfile>>
    /\ \E visible \in BOOLEAN : menu' = IF visible THEN "wipe" ELSE "main"
    /\ menuActs' = menuActs + 1
    /\ finPrev' = NoPrev
    /\ acted' = TRUE
    /\ CallFinish(NoIntent, "menu_wait")
    /\ UNCHANGED fwPending
    /\ UNCH_menu /\ UNCH_acts
    /\ UNCHANGED fvars

\* lines 836-884 (and the like in the other sub-menus): an item that runs a
\* script, after which the sub-menu is shown again
SubMenuScript ==
    /\ pc = "menu_wait" /\ menu \in SubMenus /\ menuActs < MaxMenuActs
    /\ menuActs' = menuActs + 1
    /\ acted' = TRUE
    /\ CallFinish(NoIntent, "menu_wait")
    /\ UNCHANGED <<cmdfile, intentfile, fwPending, menu, finPrev>>
    /\ UNCH_menu /\ UNCH_acts
    /\ UNCHANGED fvars

\* ------------------------------------------------------------------ firmware
\* maybe_install_firmware_update, as lines 103-116 describe it
FwBoot ==
    [command |-> "boot-recovery", status |-> "",
     recovery |-> S_recovery \o <<NL>> \o S_wipe_cache \o <<NL>>]

\* a main that reboots without the call of line 1522
FwCheckNoFinish ==
    /\ pc = "fw_check"
    /\ pc' = "main_sync"
    /\ UNCHANGED <<bcb, cmdfile, intentfile, args, status, fwPending, menu, menuActs,
                   finIntent, finRet, armed, resetCount, parked, resetDone, fwWrote,
                   finPrev>>
    /\ UNCH_hist
    /\ UNCHANGED fvars

\* a main that syncs and reboots as soon as the firmware check returns
AfterFirmwareNoFinish == pc' = "main_sync" /\ UNCHANGED <<finIntent, finRet>>

\* line 1522: where maybe_install_firmware_update returns to
AfterFirmware == CallFinish(Options(args).send_intent, "main_sync")

\* line 1519 with nothing pending: on to finish_recovery(send_intent), line 1522;
\* with an update pending, step 8a
FwCheck ==
    /\ pc = "fw_check"
    /\ IF fwPending
       THEN /\ bcb' = FwBoot
            /\ fwWrote' = TRUE
            /\ pc' = "fw_8b"
            /\ UNCHANGED <<finIntent, finRet>>
       ELSE /\ AfterFirmware
            /\ UNCHANGED <<bcb, fwWrote>>
    /\ UNCHANGED <<cmdfile, intentfile, args, status, fwPending, menu, menuActs,
                   armed, resetCount, parked, resetDone, finPrev>>
    /\ UNCH_hist
    /\ UNCHANGED fvars

\* step 8b: the firmware image is written into the raw cache partition
Fw8b ==
    /\ pc = "fw_8b"
    /\ cmdfile' = NoFile
    /\ intentfile' = NoFile
    /\ finPrev' = NoPrev
    /\ pc' = "fw_8c"
    /\ UNCHANGED <<bcb, args, status, fwPending, menu, menuActs, finIntent, finRet,
                   armed, resetCount, parked, resetDone, fwWrote>>
    /\ UNCH_hist
    /\ UNCHANGED fvars

\* step 8c: the bootloader is told to install the firmware
Fw8c ==
    /\ pc = "fw_8c"
    /\ bcb' = [bcb EXCEPT !.command = "update-radio"]
    /\ pc' = "fw_reboot"
    /\ UNCHANGED <<cmdfile, intentfile, args, status, fwPending, menu, menuActs,
                   finIntent, finRet, armed, resetCount, parked, resetDone, fwWrote,
                   finPrev>>
    /\ UNCH_hist
    /\ UNCHANGED fvars

\* the firmware image or the second control-block write fails: the
\* collaborator returns to main with the record of step 8a written
FwReturn ==
    /\ pc \in {"fw_8b", "fw_8c"}
    /\ AfterFirmware
    /\ UNCHANGED <<bcb, cmdfile, intentfile, args, status, fwPending, menu, menuActs,
                   armed, resetCount, parked, resetDone, fwWrote, finPrev>>
    /\ UNCH_hist
    /\ UNCHANGED fvars

\* "reboot now to install it" (line 1518)
FwReboot ==
    /\ pc = "fw_reboot"
    /\ Boot
    /\ UNCHANGED fvars

\* ------------------------------------------------------------------ main: the end
\* line 1523
MainSync ==
    /\ pc = "main_sync"
    /\ pc' = "reboot"
    /\ UNCHANGED <<bcb, cmdfile, intentfile, args, status, fwPending, menu, menuActs,
                   finIntent, finRet, armed, resetCount, parked, resetDone, fwWrote,
                   finPrev>>
    /\ UNCH_hist
    /\ UNCHANGED fvars

\* lines 1524-1528: do_reboot is 1 (line 122) and nothing changes it
Reboot ==
    /\ pc = "reboot"
    /\ Boot
    /\ UNCHANGED fvars


\* ------------------------------------------------------------------ flash_image
\* images: any header over {0,1}; the bytes after the header are told apart
\* by their offset
ImageOf(h, n) == [i \in 1..n |-> IF i <= Len(h) THEN h[i] ELSE 10 + i]
HeaderBytes(n) == [1..n -> {0, 1}]
Images == UNION { {ImageOf(h, n) : h \in HeaderBytes(Min(n, HEADER_SIZE))} : n \in 1..MaxImageLen }

PartLen == MaxImageLen + MaxBlock
\* partitions: a header over {0,1} or of old bytes (2), then old bytes
Partitions ==
    { [i \in 1..PartLen |-> IF i <= HEADER_SIZE THEN h[i] ELSE 2] :
        h \in HeaderBytes(HEADER_SIZE) \cup {[i \in 1..HEADER_SIZE |-> 2]} }

Zeros(n) == [i \in 1..n |-> 0]

\* the partition after one whole block b is written at offset off
WriteBlock(p, off, b) ==
    [i \in 1..Len(p) |-> IF i > off /\ i <= off + Len(b) THEN b[i - off] ELSE p[i]]

\* read(fd, buf, n) at offset pos of the image file
ReadImage(pos, n) == SubSeq(image, pos + 1, Min(Len(image), pos + n))

\* the first bytes of the partition, as mtd_read_data returns them (line 105)
ReadCheck(p) == Take(p, HEADER_SIZE)

\* a comparison that lost the negation of memcmp
HeaderSameInverted(h, check) == Len(check) = Len(h) /\ h # check

\* line 109
HeaderSame(h, check) == Len(check) = Len(h) /\ h = check

\* no block write is pending in the open write session
Settled == Len(wbuf) < blockSize

UNCH_run == UNCHANGED <<image, blockSize, deleteImage, attempts, startDiff, initDiff, completed,
                        startPart, startImg, prevOk, argv, fail, checkFailed>>
UNCH_img == UNCH_run /\ UNCHANGED <<opened, sess, ropen>>

\* an invocation that is over, or none
Ended == {"idle", "exit0", "exit1", "exit2"}

\* argv entries that are not there (NULL)
NoArg == ""
S_boot == "boot"
S_img == "a.img"
NoParse == [deleteImage |-> FALSE, partitionName |-> NoArg, imageFile |-> NoArg]

\* lines 70-77
RECURSIVE ParseLoop(_, _)
ParseLoop(av, st) ==
    IF av = <<>> THEN st
    ELSE ParseLoop(Tail(av),
             IF Head(av) = "-d" THEN [st EXCEPT !.deleteImage = TRUE]
             ELSE IF st.partitionName = NoArg THEN [st EXCEPT !.partitionName = Head(av)]
             ELSE [st EXCEPT !.imageFile = Head(av)])

\* lines 65-82; av is argv without the program name, so argc = Len(av) + 1
ParseArgs(av) ==
    IF Len(av) + 1 < 3 \/ Len(av) + 1 > 4
    THEN [rc |-> 2] @@ NoParse
    ELSE LET st == ParseLoop(av, NoParse)
         IN  [rc |-> IF st.partitionName = NoArg \/ st.imageFile = NoArg THEN 2 ELSE 0] @@ st

\* command lines: whenever one names a partition and an image, they are the
\* partition and the image file of the model
Argvs ==
    { <<S_boot, S_img>>, <<"-d", S_boot, S_img>>,
      <<S_boot, S_img, "-d">>, <<S_boot, "x", S_img>>,
      <<S_boot>>, <<"-d", S_boot>>, <<"-d", S_boot, S_img, "x">> }

NoFail == [at |-> "none", part |-> <<>>, img |-> FALSE]

\* the tool is started with a command line (lines 56-82): a usage error
\* returns 2 at once
Invoke ==
    /\ fpc \in Ended
    /\ \E av \in Argvs :
          /\ argv' = av
          /\ fpc' = IF ParseArgs(av).rc = 2 THEN "exit2" ELSE "read_header"
          /\ deleteImage' = ParseArgs(av).deleteImage
    /\ startPart' = part
    /\ startImg' = imgExists
    /\ prevOk' = (fpc = "exit0")
    /\ opened' = FALSE
    /\ fail' = NoFail
    /\ checkFailed' = FALSE
    /\ sess' = <<>>
    /\ ropen' = FALSE
    /\ startDiff' = ~HeaderSame(Take(image, HEADER_SIZE), ReadCheck(part))
    /\ header' = <<>>
    /\ wbuf' = <<>>
    /\ woff' = 0
    /\ fdpos' = 0
    /\ left' = 0
    /\ completed' = (completed \/ fpc \in {"exit0", "exit1"})
    /\ UNCHANGED <<part, image, imgExists, blockSize, attempts, initDiff>>
    /\ UNCHANGED rvars

\* lines 86-97
ReadHeader ==
    /\ fpc = "read_header"
    /\ IF imgExists /\ Len(image) > 0
       THEN /\ header' = ReadImage(0, HEADER_SIZE)
            /\ fdpos' = Len(ReadImage(0, HEADER_SIZE))
            /\ fpc' = "open_read"
       ELSE /\ fpc' = "exit1"
            /\ UNCHANGED <<header, fdpos>>
    /\ UNCHANGED <<part, imgExists, wbuf, woff, left>>
    /\ UNCH_img
    /\ UNCHANGED rvars

\* line 99: mtd_read_partition
OpenRead ==
    /\ fpc = "open_read"
    /\ ropen' = TRUE
    /\ fpc' = "check"
    /\ UNCHANGED <<part, imgExists, header, wbuf, woff, fdpos, left, opened, sess>>
    /\ UNCH_run
    /\ UNCHANGED rvars

\* a skip path that forgets -d
CheckHeaderKeepsImage ==
    /\ fpc = "check"
    /\ fpc' = IF HeaderSame(header, ReadCheck(part)) THEN "exit0" ELSE "open1"
    /\ ropen' = HeaderSame(header, ReadCheck(part))
    /\ UNCHANGED <<part, imgExists, header, wbuf, woff, fdpos, left, opened, sess>>
    /\ UNCH_run
    /\ UNCHANGED rvars

\* a check that goes on to the flash with its read session open
CheckHeaderLeavesOpen ==
    /\ fpc = "check"
    /\ IF HeaderSame(header, ReadCheck(part))
       THEN /\ imgExists' = (imgExists /\ ~deleteImage)
            /\ fpc' = "exit0"
       ELSE /\ fpc' = "open1"
            /\ UNCHANGED imgExists
    /\ UNCHANGED <<part, header, wbuf, woff, fdpos, left, opened, sess, ropen>>
    /\ UNCH_run
    /\ UNCHANGED rvars

\* lines 104-116: the skip path returns before mtd_read_close
CheckHeader ==
    /\ fpc = "check"
    /\ IF HeaderSame(header, ReadCheck(part))
       THEN /\ imgExists' = (imgExists /\ ~deleteImage)
            /\ fpc' = "exit0"
            /\ UNCHANGED ropen
       ELSE /\ fpc' = "open1"
            /\ ropen' = FALSE
            /\ UNCHANGED imgExists
    /\ UNCHANGED <<part, header, wbuf, woff, fdpos, left, opened, sess>>
    /\ UNCH_run
    /\ UNCHANGED rvars

\* what a failing I/O call of a step leads to: nothing but the read of the
\* partition header is survived
OnFailureIgnoresClose(step) ==
    IF step \in {"open_read", "check"} THEN "open1"
    ELSE IF step = "close2" THEN "unlink" ELSE "exit1"

\* a tool for which a failing read of the partition header is fatal as well
OnFailureCheckFatal(step) == "exit1"

\* lines 31-47 (die) at every checked call of lines 86-164; lines 100-108
OnFailure(step) == IF step \in {"open_read", "check"} THEN "open1" ELSE "exit1"

\* the steps with a call whose failure is checked with die
FatalSteps ==
    {"read_header", "open1", "placeholder", "body", "close1", "open2", "header",
     "rewind", "pad", "close2"}

\* an open, read, write, close, seek or block-size query fails: die exits,
\* and what the session held back is never written
FlashIOFault ==
    /\ fpc \in FatalSteps
    /\ fail' = [at |-> fpc, part |-> part, img |-> imgExists]
    /\ fpc' = OnFailure(fpc)
    /\ wbuf' = <<>>
    /\ UNCHANGED <<part, image, imgExists, blockSize, deleteImage, header, woff, fdpos,
                   left, startDiff, attempts, initDiff, completed, startPart, startImg,
                   prevOk, opened, argv, checkFailed, sess, ropen>>
    /\ UNCHANGED rvars

\* lines 99-108: mtd_read_partition or mtd_read_data fails; the read session,
\* if it was opened, is closed at line 115
CheckReadFault ==
    /\ fpc \in {"open_read", "check"}
    /\ checkFailed' = TRUE
    /\ fpc' = OnFailure(fpc)
    /\ ropen' = FALSE
    /\ UNCHANGED <<part, image, imgExists, blockSize, deleteImage, header, wbuf, woff,
                   fdpos, left, startDiff, attempts, initDiff, completed, startPart,
                   startImg, prevOk, opened, argv, fail, sess>>
    /\ UNCHANGED rvars

\* lines 121-122 and 140-141: mtd_write_partition
OpenWrite ==
    /\ fpc \in {"open1", "open2"}
    /\ wbuf' = <<>>
    /\ woff' = 0
    /\ fpc' = IF fpc = "open1" THEN "placeholder" ELSE "header"
    /\ opened' = TRUE
    /\ sess' = Append(sess, [data |-> <<>>, closed |-> FALSE])
    /\ UNCHANGED <<part, imgExists, header, fdpos, left, ropen>>
    /\ UNCH_run
    /\ UNCHANGED rvars

\* mtd_write_data hands bytes to the session; the session writes whole blocks
FlushBlock ==
    /\ fpc \notin Ended
    /\ ~Settled
    /\ part' = WriteBlock(part, woff, Take(wbuf, blockSize))
    /\ woff' = woff + blockSize
    /\ wbuf' = Drop(wbuf, blockSize)
    /\ UNCHANGED <<imgExists, fpc, header, fdpos, left>>
    /\ UNCH_img
    /\ UNCHANGED rvars

\* the open write session is handed the bytes d (mtd_write_data)
Hand(d) == [sess EXCEPT ![Len(sess)].data = @ \o d]

\* a first session that starts with the header itself
PlaceholderIsHeader(h) == h

\* lines 124-125: memset(buf, 0, headerlen)
PlaceholderBytes(h) == Zeros(Len(h))

\* lines 124-127: the zero placeholder
Placeholder ==
    /\ fpc = "placeholder"
    /\ wbuf' = wbuf \o PlaceholderBytes(header)
    /\ sess' = Hand(PlaceholderBytes(header))
    /\ fpc' = "body"
    /\ UNCHANGED <<part, imgExists, header, woff, fdpos, left>>
    /\ UNCHANGED <<opened, ropen>>
    /\ UNCH_run
    /\ UNCHANGED rvars

\* lines 130-134: copy the rest of the file, HEADER_SIZE bytes at a time
CopyBody ==
    /\ fpc = "body" /\ Settled
    /\ LET chunk == ReadImage(fdpos, HEADER_SIZE)
       IN  IF chunk # <<>>
           THEN /\ wbuf' = wbuf \o chunk
                /\ sess' = Hand(chunk)
                /\ fdpos' = fdpos + Len(chunk)
                /\ UNCHANGED fpc
           ELSE /\ fpc' = "close1"
                /\ UNCHANGED <<wbuf, fdpos, sess>>
    /\ UNCHANGED <<part, imgExists, header, woff, left>>
    /\ UNCHANGED <<opened, ropen>>
    /\ UNCH_run
    /\ UNCHANGED rvars

\* lines 136 and 164: mtd_write_close writes what is pending, padded with
\* zeros to a whole block
CloseWrite ==
    /\ fpc \in {"close1", "close2"} /\ Settled
    /\ part' = IF wbuf = <<>> THEN part
               ELSE WriteBlock(part, woff, wbuf \o Zeros(blockSize - Len(wbuf)))
    /\ wbuf' = <<>>
    /\ sess' = [sess EXCEPT ![Len(sess)].closed = TRUE]
    /\ fpc' = IF fpc = "close1" THEN "open2" ELSE "unlink"
    /\ UNCHANGED <<imgExists, header, woff, fdpos, left>>
    /\ UNCHANGED <<opened, ropen>>
    /\ UNCH_run
    /\ UNCHANGED rvars

\* line 143: the real header
WriteHeader ==
    /\ fpc = "header"
    /\ wbuf' = wbuf \o header
    /\ sess' = Hand(header)
    /\ fpc' = "rewind"
    /\ UNCHANGED <<part, imgExists, header, woff, fdpos, left>>
    /\ UNCHANGED <<opened, ropen>>
    /\ UNCH_run
    /\ UNCHANGED rvars

\* a tool that leaves the rest of the first block to the close
PadLeftNone(bs, hl) == 0

\* a padding that adds a whole block to a header that ends on a block boundary
PadLeftWholeBlock(bs, hl) == bs - (hl % bs)

\* line 155: while (left < 0) left += block_size
RECURSIVE WhileNegativeAdd(_, _)
WhileNegativeAdd(l, bs) == IF l < 0 THEN WhileNegativeAdd(l + bs, bs) ELSE l

\* lines 154-155
PadLeft(bs, hl) == WhileNegativeAdd(bs - hl, bs)

\* lines 147-155
Rewind ==
    /\ fpc = "rewind" /\ Settled
    /\ fdpos' = Len(header)
    /\ left' = PadLeft(blockSize, Len(header))
    /\ fpc' = "pad"
    /\ UNCHANGED <<part, imgExists, header, wbuf, woff>>
    /\ UNCH_img
    /\ UNCHANGED rvars

\* lines 156-162: the rest of the first block, from the image
Pad ==
    /\ fpc = "pad" /\ Settled
    /\ IF left > 0
       THEN LET chunk == ReadImage(fdpos, Min(left, HEADER_SIZE))
            IN  IF chunk = <<>>
                THEN /\ fpc' = "exit1"
                     /\ UNCHANGED <<wbuf, fdpos, left, sess>>
                ELSE /\ wbuf' = wbuf \o chunk
                     /\ sess' = Hand(chunk)
                     /\ fdpos' = fdpos + Len(chunk)
                     /\ left' = left - Len(chunk)
                     /\ UNCHANGED fpc
       ELSE /\ fpc' = "close2"
            /\ UNCHANGED <<wbuf, fdpos, left, sess>>
    /\ UNCHANGED <<part, imgExists, header, woff>>
    /\ UNCHANGED <<opened, ropen>>
    /\ UNCH_run
    /\ UNCHANGED rvars

\* an end that removes the image whether or not -d was given
UnlinkImageAlways ==
    /\ fpc = "unlink"
    /\ imgExists' = FALSE
    /\ fpc' = "exit0"
    /\ UNCHANGED <<part, header, wbuf, woff, fdpos, left>>
    /\ UNCH_img
    /\ UNCHANGED rvars

\* lines 166-169
UnlinkImage ==
    /\ fpc = "unlink"
    /\ imgExists' = (imgExists /\ ~deleteImage)
    /\ fpc' = "exit0"
    /\ UNCHANGED <<part, header, wbuf, woff, fdpos, left>>
    /\ UNCH_img
    /\ UNCHANGED rvars

\* power is lost while the tool runs: what the session has not written is lost
FlashPowerLoss ==
    /\ fpc \notin Ended
    /\ attempts < MaxAttempts
    /\ attempts' = attempts + 1
    /\ fpc' = "idle"
    /\ wbuf' = <<>>
    /\ UNCHANGED <<part, image, imgExists, blockSize, deleteImage, header, woff, fdpos,
                   left, startDiff, initDiff, completed, startPart, startImg, prevOk,
                   opened, argv, fail, checkFailed, sess, ropen>>
    /\ UNCHANGED rvars

\* ------------------------------------------------------------------ specifications
RIdle ==
    /\ bcb = ZeroBCB /\ cmdfile = NoFile /\ intentfile = NoFile
    /\ pc = "main_sys" /\ procArgs = <<>> /\ args = <<>> /\ status = "SUCCESS"
    /\ fwPending = FALSE /\ menu = "none" /\ menuActs = 0
    /\ finIntent = NoIntent /\ finRet = "none"
    /\ readCmd = FALSE /\ resume = FALSE /\ armed = FALSE /\ armedA = <<>>
    /\ resetCount = 0 /\ parked = FALSE /\ resetDone = FALSE /\ fwWrote = FALSE
    /\ finPrev = NoPrev
    /\ bootRead = ZeroBCB /\ faults = {} /\ did = <<>> /\ textVisible = FALSE
    /\ nFaults = 0 /\ acted = FALSE
    /\ tmpLen = 0 /\ tmplog_offset = 0 /\ logAppended = <<>>

FIdle ==
    /\ part = [i \in 1..PartLen |-> 2] /\ image = <<0>> /\ imgExists = TRUE
    /\ blockSize = 1 /\ deleteImage = FALSE /\ fpc = "idle" /\ header = <<>>
    /\ wbuf = <<>> /\ woff = 0 /\ fdpos = 0 /\ left = 0 /\ startDiff = FALSE
    /\ attempts = 0 /\ initDiff = FALSE /\ completed = FALSE
    /\ startPart = part /\ startImg = TRUE /\ prevOk = FALSE /\ opened = FALSE
    /\ argv = <<>> /\ fail = NoFail /\ checkFailed = FALSE /\ sess = <<>> /\ ropen = FALSE

InitWith(boots) ==
    /\ bcb \in boots /\ cmdfile = NoFile /\ intentfile = NoFile
    /\ pc = "main_sys" /\ procArgs = <<>> /\ args = <<>> /\ status = "SUCCESS"
    /\ fwPending = FALSE /\ menu = "none" /\ menuActs = 0
    /\ finIntent = NoIntent /\ finRet = "none"
    /\ readCmd = FALSE /\ resume = FALSE /\ armed = FALSE /\ armedA = <<>>
    /\ resetCount = 0 /\ parked = FALSE /\ resetDone = FALSE /\ fwWrote = FALSE
    /\ finPrev = NoPrev
    /\ bootRead = ZeroBCB /\ faults = {} /\ did = <<>> /\ textVisible = FALSE
    /\ nFaults = 0 /\ acted = FALSE
    /\ tmpLen = 0 /\ tmplog_offset = 0 /\ logAppended = <<>>
    /\ FIdle

Init == InitWith(InitBCBs)

Next ==
    \/ ExternalRequest \/ DirectInvoke \/ PowerLoss
    \/ GetArgs \/ Dispatch \/ EraseData \/ EraseCache \/ Decide
    \/ FinIntent \/ FinResetBCB \/ FinUnlink \/ FinSync
    \/ MenuReboot \/ MenuUsbToggle \/ UsbDisable \/ MenuEnterSub \/ MenuChooseUpdate
    \/ FlashMenuKey \/ SubMenuBack \/ SubMenuWipeData \/ SubMenuScript
    \/ FwCheck \/ Fw8b \/ Fw8c \/ FwReturn \/ FwReboot
    \/ MainSync \/ Reboot

Spec == Init /\ [][Next]_vars

\* the same device with a control block whose reads and writes can fail; the
\* parked user toggles the USB storage or asks for the reboot (the sub-menus
\* reach the control block through the same finish_recovery calls)
FaultNext ==
    \/ ExternalRequest \/ DirectInvoke \/ PowerLoss
    \/ GetArgs \/ GetArgsFault \/ Dispatch \/ EraseData \/ EraseCache \/ Decide
    \/ FinIntent \/ FinResetBCB \/ FinResetFault \/ FinUnlink \/ FinSync
    \/ MenuReboot \/ MenuUsbToggle \/ UsbDisable
    \/ FwCheck \/ Fw8b \/ Fw8c \/ FwReboot
    \/ MainSync \/ Reboot

FaultSpec == Init /\ [][FaultNext]_vars

\* a request or a direct start on a device whose control block is clear, with
\* a run that writes to its transient log and log files that may not open
LogNext ==
    \/ ExternalRequest \/ DirectInvoke
    \/ GetArgs \/ Dispatch \/ EraseData \/ EraseCache \/ Decide
    \/ FinIntent \/ FinLogFault \/ FinResetBCB \/ FinUnlink \/ FinSync
    \/ MenuReboot \/ MenuUsbToggle \/ UsbDisable
    \/ FwCheck \/ Fw8b \/ Fw8c \/ FwReboot
    \/ MainSync \/ Reboot \/ LogAppend

LogSpec == InitWith({ZeroBCB}) /\ [][LogNext]_vars

FlashInit ==
    /\ part \in Partitions /\ image \in Images /\ imgExists = TRUE
    /\ blockSize \in 1..MaxBlock /\ deleteImage = FALSE /\ fpc = "idle"
    /\ header = <<>> /\ wbuf = <<>> /\ woff = 0 /\ fdpos = 0 /\ left = 0
    /\ startDiff = FALSE /\ attempts = 0 /\ completed = FALSE
    /\ initDiff = ~HeaderSame(Take(image, HEADER_SIZE), ReadCheck(part))
    /\ startPart = part /\ startImg = TRUE /\ prevOk = FALSE /\ opened = FALSE
    /\ argv = <<>> /\ fail = NoFail /\ checkFailed = FALSE /\ sess = <<>> /\ ropen = FALSE
    /\ RIdle

FlashNext ==
    \/ Invoke \/ ReadHeader \/ OpenRead \/ CheckHeader \/ OpenWrite \/ FlushBlock
    \/ Placeholder \/ CopyBody \/ CloseWrite \/ WriteHeader \/ Rewind \/ Pad
    \/ UnlinkImage \/ FlashPowerLoss

FlashSpec == FlashInit /\ [][FlashNext]_vars

\* the same tool with I/O calls that can fail
FlashFaultNext ==
    \/ Invoke \/ ReadHeader \/ OpenRead \/ CheckHeader \/ OpenWrite \/ FlushBlock
    \/ Placeholder \/ CopyBody \/ CloseWrite \/ WriteHeader \/ Rewind \/ Pad
    \/ UnlinkImage \/ FlashIOFault \/ CheckReadFault

FlashFaultSpec == FlashInit /\ [][FlashFaultNext]_vars


\* ------------------------------------------------------------------ properties: recovery
\* C1: a run restarted while the control block is armed resolves the list A
\* of the run that armed it, from the control block and without opening the
\* command file (stated for a non-empty A and for restarts the firmware
\* update did not rewrite the control block before)
C1_ResumeSameArgs ==
    (pc = "dispatch" /\ resume /\ ~fwWrote /\ armedA # <<>>)
        => (args = armedA /\ ~readCmd)

\* C2: after get_args the control block holds command boot-recovery and, in
\* its recovery field, "recovery\n" and then exactly the resolved arguments,
\* one per line, in order
C2_RoundTrip ==
    pc = "dispatch"
        => (bcb.command = "boot-recovery" /\ bcb.recovery = Lines(<<S_recovery>> \o args))

\* C3 as stated: in every state after a finish_recovery reset, with no new
\* external request, a reboot boots the main system
C3_RebootsToMainAfterReset == resetDone => BootTarget(bcb) = "main"

\* C3 amended: in every state after a finish_recovery reset, with no new
\* external request and until maybe_install_firmware_update rewrites the
\* control block, a reboot boots the main system; also before the command
\* file is removed and the sync is done
C3_RebootsToMainUntilFirmware == (resetDone /\ ~fwWrote) => BootTarget(bcb) = "main"
C3_Witness ==
    pc = "fin_unlink" /\ resetDone /\ ~fwWrote /\ cmdfile.exists /\ resetCount = 1
        /\ BootTarget(bcb) = "main"

\* C4 as stated: at the reboot of main the control block was reset exactly once
C4_ResetExactlyOnce == pc = "reboot" => resetCount = 1

\* C4 amended: at the reboot of main the control block was reset at least
\* once: exactly once when the run did not park, and at least twice when it
\* parked in prompt_and_wait
C4_ResetAtLeastOnce ==
    pc = "reboot" => /\ resetCount >= 1
                     /\ ~parked => resetCount = 1
                     /\ parked => resetCount >= 2
C4_Witness == pc = "reboot" /\ parked /\ menuActs > 0 /\ resetCount >= 3

\* C5 as stated: when maybe_install_firmware_update is called the run has not
\* reset the control block
C5_NotResetAtFirmwareCheck == pc = "fw_check" => resetCount = 0

\* C5 amended: when maybe_install_firmware_update is called, a run that did
\* not park has not reset the control block, which still holds what get_args
\* wrote; a run that parked in prompt_and_wait has reset it
C5_ResetIffParked ==
    pc = "fw_check" => /\ parked <=> resetCount > 0
                       /\ ~parked => (armed /\ bcb = WriteBack(bcb, args))
                       /\ parked => bcb = ZeroBCB
C5_Witness == pc = "fw_check" /\ parked /\ resetCount > 0 /\ bcb = ZeroBCB /\ args # <<>>

\* C6: a finish_recovery call that follows another with the same intent
\* leaves the control block, the command file and the intent file as the
\* first left them, with no warning: the control block all-default and the
\* command file absent
Intents == {NoIntent, [set |-> TRUE, val |-> <<"o","k">>], [set |-> TRUE, val |-> <<"n","o">>]}
C6_FinishIdempotent ==
    /\ (pc \in {"fin_sync", "fin_warn"} /\ finPrev.valid /\ finPrev.intent = finIntent)
          => (pc = "fin_sync" /\ Durable = finPrev.durable /\ bcb = ZeroBCB /\ ~cmdfile.exists)
    /\ \A i \in Intents :
          LET d1 == FinishRecovery(Durable, i)
              d2 == FinishRecovery(d1, i)
          IN  d2 = d1 /\ d1.bcb = ZeroBCB /\ ~d1.cmdfile.exists /\ ~Unlink(d1.cmdfile).warn
C6_Witness ==
    pc = "fin_sync" /\ finPrev.valid /\ finPrev.intent = finIntent /\ resetCount >= 2
        /\ Durable = finPrev.durable

\* C13: a run started with arguments on its command line resolves exactly
\* those, in their order, whatever the control block and the command file
\* hold, and does not open the command file
C13_ProcessArgsWin ==
    (pc = "dispatch" /\ procArgs # <<>>) => (args = procArgs /\ ~readCmd)
C13_Witness ==
    /\ pc = "dispatch" /\ procArgs # <<>> /\ args = procArgs
    /\ BcbArgs(bootRead.recovery) # <<>> /\ BcbArgs(bootRead.recovery) # procArgs

\* the lines of a text: what stands between its newlines, empty lines too
RECURSIVE SplitLines(_)
SplitLines(s) ==
    IF s = <<>> THEN <<>>
    ELSE LET n == FirstIn(s, {NL})
         IN  <<SubSeq(s, 1, n - 1)>> \o SplitLines(Drop(s, n))
NonEmpty(l) == l # <<>>

\* with no process arguments: the control block supplies the lines ls[2..]
\* when ls[1] is the token recovery, and else the command file is consulted
TakesFromLines(ls) ==
    LET isRec == ls # <<>> /\ ls[1] = S_recovery
        fromBcb == IF isRec THEN SubSeq(ls, 2, Min(Len(ls), MAX_ARGS)) ELSE <<>>
    IN  IF fromBcb # <<>> THEN args = fromBcb /\ ~readCmd ELSE readCmd

\* C14 as stated: with no process arguments, get_args takes the control
\* block's arguments only if the first line of the recovery field is the
\* token recovery, and then every following line, up to MAX_ARGS-1, is one
\* argument; for any other content it goes on to the command file
C14_FirstLineRecovery ==
    (pc \in {"dispatch", "crashed"} /\ procArgs = <<>>)
        => TakesFromLines(SplitLines(bootRead.recovery))

\* C14 amended: the same with the non-empty lines of the first
\* sizeof(recovery)-1 bytes of the field: the first non-empty line has to be
\* the token recovery, and every following non-empty line is one argument
C14_FirstTokenRecovery ==
    (pc \in {"dispatch", "crashed"} /\ procArgs = <<>>)
        => TakesFromLines(SelectSeq(SplitLines(Take(bootRead.recovery, RecoverySize - 1)),
                                    NonEmpty))
C14_Witness ==
    /\ pc = "dispatch" /\ procArgs = <<>> /\ ~readCmd /\ ~resume
    /\ Head(bootRead.recovery) = NL /\ args = <<A_wipe_cache>>

\* C15: get_args does not crash, whatever the command file and the control
\* block hold, and resolves at most MAX_ARGS entries (the program name and
\* MAX_ARGS-1 arguments), each shorter than MAX_ARG_LENGTH
C15_NoCrashBounded ==
    procArgs = <<>>
        => /\ pc # "crashed"
           /\ pc = "dispatch"
                 => /\ Len(args) <= MAX_ARGS - 1
                    /\ \A i \in 1..Len(args) : Len(args[i]) < MAX_ARG_LENGTH

\* the positions of a run after the command file was removed by a finisher
AfterUnlink ==
    {"fin_sync", "fin_warn", "menu_wait", "usb_wait", "fw_check", "fw_8b", "fw_8c",
     "fw_reboot", "main_sync", "reboot"}

\* C16: a failed write of the control block stops the calling operation:
\* after a failed write in get_args the run executes no action, and after a
\* failed reset in finish_recovery the run neither removes the command file
\* nor goes on to the reboot
C16_WriteFailureIsFatal ==
    /\ "write_get_args" \in faults => did = <<>>
    /\ "write_finish" \in faults => pc \notin AfterUnlink

\* C17: a get_args whose read of the control block fails does what it does
\* on an all-zero record: it takes no argument from the control block,
\* consults the command file, is not stopped by the failure, and writes
\* boot-recovery and the resolved arguments to the control block
C17_ReadFailureIsZeroRecord ==
    ("read" \in faults /\ pc \in {"dispatch", "crashed"} /\ procArgs = <<>>)
        => LET r == ResolveArgs(<<>>, ZeroBCB, cmdfile)
           IN  /\ bootRead = ZeroBCB /\ readCmd
               /\ (pc = "crashed") = r.crash
               /\ pc = "dispatch"
                     => /\ args = IF cmdfile.exists
                                  THEN FileArgs(cmdfile.data, MAX_ARGS - 1).args ELSE <<>>
                        /\ "write_get_args" \notin faults
                              => /\ bcb.command = "boot-recovery"
                                 /\ bcb.status = ""
                                 /\ bcb.recovery = CatArgs(S_recovery \o <<NL>>, args)
C17_Witness ==
    /\ "read" \in faults /\ "write_get_args" \notin faults /\ pc = "dispatch"
    /\ procArgs = <<>> /\ resume /\ armedA # <<>> /\ args # armedA
    /\ bcb.command = "boot-recovery"

HasPackage == \E i \in 1..Len(args) : HasPrefix(args[i], S_update_package \o <<"=">>)
HasWipeData == \E i \in 1..Len(args) : args[i] = S_wipe_data
HasWipeCache == \E i \in 1..Len(args) : args[i] = S_wipe_cache
Ops == [i \in 1..Len(did) |-> did[i].op]

\* C18: when the dispatch of main is over it has taken exactly one branch:
\* with an update package only the installer was called; else with
\* wipe_data the data root and then the cache root were erased; else with
\* wipe_cache only the cache root was erased; else nothing was called and
\* the status is Error
C18_OneBranch ==
    pc = "decide"
        => IF HasPackage THEN Ops = <<"install">>
           ELSE IF HasWipeData THEN Ops = <<"erase_data", "erase_cache">>
           ELSE IF HasWipeCache THEN Ops = <<"erase_cache">>
           ELSE Ops = <<>> /\ status = "ERROR"
C18_Witness ==
    pc = "decide" /\ HasPackage /\ HasWipeData /\ Ops = <<"install">> /\ status = "SUCCESS"

\* C19: for a wipe_data request the cache erase is attempted whether the
\* data erase failed or not, and the status is Error exactly when an
\* attempted erase failed
C19_WipeBestEffort ==
    (pc = "decide" /\ ~HasPackage /\ HasWipeData)
        => /\ Ops = <<"erase_data", "erase_cache">>
           /\ status = "ERROR" <=> \E i \in 1..Len(did) : ~did[i].ok
C19_Witness ==
    /\ pc = "decide" /\ ~HasPackage /\ HasWipeData /\ Len(did) = 2
    /\ ~did[1].ok /\ did[2].ok /\ did[2].op = "erase_cache" /\ status = "ERROR"

\* the positions of a run after main decided whether to park
AfterDecide ==
    {"fin_intent", "fin_bcb", "fin_unlink", "fin_sync", "fin_warn", "menu_wait",
     "usb_wait", "fw_check", "fw_8b", "fw_8c", "fw_reboot", "main_sync", "reboot"}

\* C20: a run whose action ended with a status other than Success has
\* entered prompt_and_wait before any firmware check, finish or reboot, and
\* has not crashed; a run whose action ended with Success has parked exactly
\* when the UI text was visible
C20_ParksOnError ==
    /\ pc \in AfterDecide
          => /\ status # "SUCCESS" => parked
             /\ status = "SUCCESS" => (parked <=> textVisible)
    /\ pc = "crashed" => did = <<>>
C20_Witness ==
    /\ pc = "fin_intent" /\ parked /\ status = "ERROR" /\ resetCount = 0
    /\ \E i \in 1..Len(did) : ~did[i].ok

\* the control block is reset, the command file is gone and a boot goes to
\* the main system
ResetAndRemoved == bcb = ZeroBCB /\ ~cmdfile.exists /\ BootTarget(bcb) = "main"

\* C25 as stated: wherever the session waits for a key, in prompt_and_wait or
\* a sub-menu, no action was executed since finish_recovery reset the control
\* block and removed the command file, and a power cycle boots the main system
C25_ParkedIsFinished ==
    pc \in {"menu_wait", "usb_wait"} => (~acted /\ ResetAndRemoved)

\* C25 amended: the same at every menu; while the session waits for the key
\* that ends USB mass storage, the enabling script has run since the last
\* finish_recovery, and the reset made before it still stands
C25_ParkedBootsMain ==
    /\ pc = "menu_wait" => (~acted /\ ResetAndRemoved)
    /\ pc = "usb_wait" => ResetAndRemoved
C25_Witness ==
    /\ pc = "usb_wait" /\ acted /\ ResetAndRemoved /\ readCmd /\ did # <<>>
    /\ resetCount > 0

\* a line without the CR that ends it
StripCR(l) == IF l # <<>> /\ l[Len(l)] = CR THEN Take(l, Len(l) - 1) ELSE l

\* C29: when get_args took the arguments from the command file, the k-th
\* argument is the k-th line of the file without its CR/LF, cut to
\* MAX_ARG_LENGTH-1 characters, for every k below MAX_ARGS, and there are no
\* other arguments
C29_LinePerArgument ==
    (pc = "dispatch" /\ readCmd /\ cmdfile.exists)
        => LET ls == SplitLines(cmdfile.data)
           IN  /\ Len(args) = Min(Len(ls), MAX_ARGS - 1)
               /\ \A k \in 1..Len(args) : args[k] = Take(StripCR(ls[k]), MAX_ARG_LENGTH - 1)

\* no position occurs twice in s
NoDup(s) == \A i, j \in 1..Len(s) : s[i] = s[j] => i = j

\* C30: within a run the read offset of finish_recovery never decreases, no
\* byte of the transient log is appended to the persistent log twice, and a
\* finish_recovery call that finds nothing written after the offset appends
\* nothing
C30_LogCopiedOnce ==
    [][ /\ pc' \notin {"main_sys", "get_args"} => tmplog_offset' >= tmplog_offset
        /\ NoDup(logAppended')
        /\ (pc = "fin_intent" /\ tmpLen = tmplog_offset) => logAppended' = logAppended ]_vars
C30_Witness ==
    /\ pc = "fin_bcb" /\ resetCount > 0 /\ menuActs > 0
    /\ tmpLen = MaxLog /\ tmplog_offset = tmpLen /\ logAppended = Positions(1, MaxLog)

\* C31: a finish_recovery call with an intent leaves the intent file holding
\* that intent and nothing else, a call without one leaves the file as it
\* was, and every call from the menus has none; a run that was given
\* --send_intent=s and reaches the sync and the reboot of main has s in the
\* intent file, parked or not
C31_IntentWritten ==
    [][ /\ pc = "fin_intent" => (finRet = "menu_wait" => ~finIntent.set)
        /\ (pc = "fin_intent" /\ pc' = "fin_bcb")
              => intentfile' = IF finIntent.set THEN File(finIntent.val) ELSE intentfile
        /\ (pc' \in {"main_sync", "reboot"} /\ Options(args').send_intent.set)
              => intentfile' = File(Options(args').send_intent.val) ]_vars
C31_Witness ==
    /\ pc = "reboot" /\ parked /\ menuActs > 0 /\ Options(args).send_intent.set
    /\ intentfile = File(Options(args).send_intent.val) /\ resetCount > 1

\* the run is inside prompt_and_wait: at a key wait, or in a finish_recovery
\* call that returns to one
InPrompt ==
    /\ parked
    /\ \/ pc \in {"menu_wait", "usb_wait"}
       \/ pc \in {"fin_intent", "fin_bcb", "fin_unlink", "fin_sync", "fin_warn"}
          /\ finRet = "menu_wait"

FwSteps == {"fw_check", "fw_8b", "fw_8c"}

\* C33: main reaches its reboot only from its sync, its sync only from the
\* end of the finish_recovery call of line 1522, and that call only from
\* maybe_install_firmware_update; at the reboot the control block is the
\* all-default record the finisher wrote, with no firmware write after it
C33_RebootAfterFinishAndSync ==
    [][ /\ (pc' = "reboot" /\ pc # "reboot") => pc = "main_sync"
        /\ (pc' = "main_sync" /\ pc # "main_sync")
              => (pc \in {"fin_sync", "fin_warn"} /\ finRet = "main_sync")
        /\ (pc' = "fin_intent" /\ finRet' = "main_sync" /\ pc # "fin_intent") => pc \in FwSteps
        /\ pc' = "reboot" => (bcb' = ZeroBCB /\ ~fwWrote' /\ resetCount' >= 1) ]_vars
C33_Witness ==
    pc = "reboot" /\ bcb = ZeroBCB /\ fwPending /\ ~fwWrote /\ resetCount = 1 /\ ~parked

\* the steps of a finish_recovery call
FinSteps == {"fin_intent", "fin_bcb", "fin_unlink", "fin_sync", "fin_warn"}

\* C34: in a finish_recovery call the step that resets the control block
\* leaves the command file alone, the command file changes only in the step
\* after it, with the control block already all-default, and the call returns
\* only from its sync; a loss of power between the reset and the removal
\* leaves the all-default control block and the command file as it was
C34_ResetBeforeUnlink ==
    [][ /\ (pc = "fin_bcb" /\ pc' = "fin_unlink") => (bcb' = ZeroBCB /\ cmdfile' = cmdfile)
        /\ (pc \in FinSteps /\ cmdfile' # cmdfile)
              => (pc = "fin_unlink" /\ bcb = ZeroBCB /\ resetCount >= 1 /\ ~cmdfile'.exists)
        /\ (pc \in FinSteps /\ pc' \notin FinSteps /\ pc' \notin {"get_args", "main_sys"})
              => (pc \in {"fin_sync", "fin_warn"} /\ pc' = finRet)
        /\ (pc = "fin_unlink" /\ pc' \in {"get_args", "main_sys"})
              => (bcb' = ZeroBCB /\ cmdfile' = cmdfile /\ pc' = "main_sys") ]_vars
C34_Witness ==
    pc = "main_sys" /\ bcb = ZeroBCB /\ cmdfile.exists /\ resetDone /\ ~armed

\* the characters of a list of strings, in order
RECURSIVE Flatten(_)
Flatten(ss) == IF ss = <<>> THEN <<>> ELSE Head(ss) \o Flatten(Tail(ss))

\* the characters of a text that are no line terminators
RECURSIVE NoTerminators(_)
NoTerminators(s) ==
    IF s = <<>> THEN <<>>
    ELSE (IF Head(s) \in {CR, NL} THEN <<>> ELSE <<Head(s)>>) \o NoTerminators(Tail(s))

\* every line is there, not blank, and fits the buffer with its terminator
LinesFit(d) ==
    LET ls == SplitLines(d)
    IN  \A k \in 1..Len(ls) : StripCR(ls[k]) # <<>> /\ Len(ls[k]) + 1 < MAX_ARG_LENGTH - 1

\* C35: a run with no process arguments that read a recovery field holding
\* the token recovery and no argument line has opened the command file; the
\* arguments it resolved are made of the characters of that file in order,
\* and are its lines when every line fits the buffer (none when there is no file)
C35_EmptyBcbListReadsFile ==
    (pc \in {"dispatch", "crashed"} /\ procArgs = <<>> /\ bootRead.recovery = Lines(<<S_recovery>>))
        => /\ readCmd
           /\ pc = "dispatch"
                => /\ ~cmdfile.exists => args = <<>>
                   /\ cmdfile.exists
                        => /\ HasPrefix(NoTerminators(cmdfile.data), Flatten(args))
                           /\ LinesFit(cmdfile.data)
                                => LET ls == SplitLines(cmdfile.data)
                                   IN  /\ Len(args) = Min(Len(ls), MAX_ARGS - 1)
                                       /\ \A k \in 1..Len(args) : args[k] = StripCR(ls[k])
C35_Witness ==
    /\ pc = "dispatch" /\ procArgs = <<>> /\ bootRead.recovery = Lines(<<S_recovery>>)
    /\ readCmd /\ cmdfile = File(Lines(<<A_intent, A_wipe_data>>))
    /\ args = <<A_intent, A_wipe_data>>

\* C37: the record get_args writes has the status field it read, which is
\* the one of the control block, or empty when the read failed, under the
\* command boot-recovery and a recovery field that starts with "recovery\n";
\* the record the finisher writes has all three fields empty
C37_StatusKeptThenCleared ==
    [][ /\ (pc = "get_args" /\ pc' = "dispatch" /\ "write_get_args" \notin faults')
              => /\ bcb'.status = bootRead'.status
                 /\ bootRead'.status = IF "read" \in faults' THEN "" ELSE bcb.status
                 /\ bcb'.command = "boot-recovery"
                 /\ HasPrefix(bcb'.recovery, S_recovery \o <<NL>>)
        /\ (pc = "fin_bcb" /\ pc' = "fin_unlink" /\ "write_finish" \notin faults')
              => (bcb'.command = "" /\ bcb'.status = "" /\ bcb'.recovery = <<>>) ]_vars
C37_Witness ==
    /\ pc = "fin_unlink" /\ resetDone /\ bootRead.status = "OKAY" /\ faults = {}
    /\ bcb.status = "" /\ bcb.command = "" /\ bcb.recovery = <<>>

\* ------------------------------------------------------------------ properties: flash
ImageHeader == Take(image, HEADER_SIZE)
\* the header check of line 109 would pass on the partition as it is
PassesCheck == HeaderSame(ImageHeader, ReadCheck(part))
\* every partition byte covered by the image equals the image's byte
HoldsImage == \A i \in 1..Len(image) : part[i] = image[i]
\* the image is long enough for the padding of the first block (lines 156-158)
FillsFirstBlock == Len(image) >= HEADER_SIZE + PadLeft(blockSize, HEADER_SIZE)

\* C7: on a partition whose header differed from the image's at first, in
\* every state that interrupted flashes of the image reach, a partition that
\* passes the header check holds the image
C7_TornNeverPasses == (initDiff /\ PassesCheck) => HoldsImage

\* C8: once the first write session is closed and until the header is written
\* in the second, the partition does not pass the header check
C8_NoSkipAfterBody == fpc \in {"open2", "header"} => ~PassesCheck

\* C9: on a partition whose header differed from the image's at first, the
\* first invocation that runs to its end, after any interrupted ones, exits 0
\* and leaves the image on the partition (stated for the images that fill
\* the first block)
C9_RetryCompletes ==
    (initDiff /\ FillsFirstBlock /\ ~completed /\ fpc \in {"exit0", "exit1"})
        => (fpc = "exit0" /\ HoldsImage)

\* C10: an invocation that found the partition header different from the
\* image header and returns success leaves the image header in the first
\* HEADER_SIZE bytes and the image bytes after it
C10_FlashCorrect ==
    (fpc = "exit0" /\ startDiff) => (Take(part, Len(ImageHeader)) = ImageHeader /\ HoldsImage)
C10_Witness ==
    fpc = "exit0" /\ startDiff /\ Len(image) > HEADER_SIZE /\ blockSize > HEADER_SIZE /\ attempts > 0

\* the invocation was started on an existing image file whose first
\* HEADER_SIZE bytes are the partition's first HEADER_SIZE bytes
StartedOnSameHeader ==
    startImg /\ Take(startPart, HEADER_SIZE) = Take(image, HEADER_SIZE)

\* C11: an invocation started on a partition whose first HEADER_SIZE bytes
\* equal the image's first HEADER_SIZE bytes opens no write session and
\* leaves every byte of the partition as it was, whatever the body is, and
\* it ends with exit status 0
C11_SkipWritesNothing ==
    (StartedOnSameHeader /\ fpc \notin {"idle", "exit2"})
        => /\ ~opened
           /\ part = startPart
           /\ fpc \in {"read_header", "open_read", "check", "exit0"}
C11_Witness ==
    StartedOnSameHeader /\ fpc = "exit0" /\ ~HoldsImage /\ ~prevOk /\ part = startPart

\* C12 as stated: for every image and block size, the invocation that
\* follows at once on one that returned 0 writes nothing to the partition
\* and returns 0, and with -d it deletes the image file
C12_ReinvokeSkips ==
    (prevOk /\ startImg /\ fpc \in {"exit0", "exit1"})
        => /\ fpc = "exit0" /\ ~opened /\ part = startPart
           /\ deleteImage => ~imgExists

\* C12 amended: the same for the images of at least HEADER_SIZE bytes
C12_ReinvokeSkipsFullHeader ==
    (prevOk /\ startImg /\ Len(image) >= HEADER_SIZE /\ fpc \in {"exit0", "exit1"})
        => /\ fpc = "exit0" /\ ~opened /\ part = startPart
           /\ deleteImage => ~imgExists
C12_Witness ==
    /\ prevOk /\ startImg /\ fpc = "exit0" /\ deleteImage /\ ~imgExists
    /\ initDiff /\ Len(image) > HEADER_SIZE /\ HoldsImage

\* C21: once an open, read, write, close, seek or block-size query of the
\* flash (the read of the partition header aside) has failed, the invocation
\* has exit status 1, the partition is as it was at the failure and the image
\* file is still there; the invocation never reaches exit status 0
C21_FailureIsFatal ==
    fail.at # "none" => /\ fpc = "exit1"
                        /\ part = fail.part
                        /\ imgExists = fail.img
C21_Witness ==
    /\ fail.at = "close2" /\ fpc = "exit1" /\ deleteImage /\ imgExists
    /\ part # startPart /\ part = fail.part

\* the command line has the form [-d] <partition-name> <image-file>
UsageForm(av) ==
    \/ Len(av) = 2 /\ av[1] # "-d" /\ av[2] # "-d"
    \/ Len(av) = 3 /\ av[1] = "-d" /\ av[2] # "-d" /\ av[3] # "-d"

\* C22: an invocation whose arguments do not have the form
\* [-d] <partition-name> <image-file> is at exit status 2, with the partition
\* and the image file as they were and no session opened
C22_UsageErrorExits2 ==
    (fpc \in {"exit0", "exit1", "exit2"} /\ ~UsageForm(argv))
        => /\ fpc = "exit2"
           /\ part = startPart /\ imgExists = startImg /\ ~opened /\ ~ropen

\* C23: the image file is gone only after an invocation with -d that ended
\* with exit status 0; without -d, and at exit status 1 or 2, it is as it was
\* when the invocation started
C23_DeleteOnlyOnSuccess ==
    (fpc # "idle" /\ imgExists # startImg) => (deleteImage /\ fpc = "exit0" /\ ~imgExists)
C23_Witness ==
    /\ fpc = "exit0" /\ deleteImage /\ ~imgExists /\ startImg /\ opened
    /\ argv = <<"-d", S_boot, S_img>>

\* C24: at most one write session is open, the second is opened only after
\* the first was closed, and the read session of the header check is closed
\* before the first write session is opened
C24_OneWriteSession ==
    /\ Len(sess) <= 2
    /\ \A i \in 1..Len(sess) : i < Len(sess) => sess[i].closed
    /\ (sess # <<>> \/ fpc = "open1") => ~ropen
C24_Witness ==
    /\ Len(sess) = 2 /\ sess[1].closed /\ ~sess[2].closed /\ sess[2].data # <<>>
    /\ fpc = "pad" /\ ~ropen

\* s is the first bytes of u
IsPrefix(s, u) == Len(s) <= Len(u) /\ s = Take(u, Len(s))
\* the image bytes after the header
Body == Drop(image, Len(header))

\* C26: the first write session is handed zeros in place of the header and
\* then the image bytes after the header, nothing else; the second session
\* exists only when the first was handed all of that and closed, and it is
\* the one that is handed the header
C26_HeaderLast ==
    /\ Len(sess) >= 1 => IsPrefix(sess[1].data, Zeros(Len(header)) \o Body)
    /\ Len(sess) >= 2 => /\ sess[1].closed
                         /\ sess[1].data = Zeros(Len(header)) \o Body
                         /\ IsPrefix(sess[2].data, image)
    /\ fpc \in {"rewind", "pad", "close2", "unlink"} => Take(sess[2].data, Len(header)) = header
C26_Witness ==
    /\ fpc = "rewind" /\ Len(sess) = 2 /\ sess[2].data = header
    /\ header = <<1, 1>> /\ sess[1].data = <<0, 0>> \o Body /\ Len(Body) >= 2

\* the smallest multiple of bs that is at least n
RoundUp(n, bs) == CHOOSE m \in n..(n + bs) : m % bs = 0 /\ \A k \in n..(m - 1) : k % bs # 0

\* C27: a second write session that is closed was handed the first bytes of
\* the image, as many as the smallest multiple of the block size that is at
\* least the header length
C27_PadToBlock ==
    (Len(sess) = 2 /\ fpc \in {"close2", "unlink", "exit0"})
        => sess[2].data = Take(image, RoundUp(Len(header), blockSize))
           /\ Len(sess[2].data) = RoundUp(Len(header), blockSize)
C27_Witness ==
    /\ Len(sess) = 2 /\ fpc = "exit0" /\ blockSize = 3 /\ Len(header) = 2
    /\ Len(sess[2].data) = 3

\* C28: an invocation in which the read of the partition header failed does
\* not take the skip path and does not end there: it opens a write session,
\* and it ends with exit status 1 only on a later failure or on an image too
\* short for the padding
C28_CheckFailureFlashes ==
    checkFailed => /\ fpc \in {"open1", "placeholder", "body", "close1", "open2", "header",
                              "rewind", "pad", "close2", "unlink", "exit0", "exit1"}
                   /\ fpc = "exit1" => (fail.at # "none" \/ left > 0)
                   /\ fpc = "exit0" => (opened /\ Len(sess) = 2 /\ HoldsImage)
C28_Witness ==
    /\ checkFailed /\ fpc = "exit0" /\ ~startDiff /\ Len(sess) = 2 /\ fail.at = "none"
    /\ sess[1].closed /\ sess[2].closed

\* the image is shorter than what the second session is to write
ShortImage == Len(image) < RoundUp(Min(Len(image), HEADER_SIZE), blockSize)

\* the invocation ended with the die of the padding step (line 158): the
\* first session is closed, the second is open
DiedInPad ==
    /\ fpc = "exit1" /\ Len(sess) = 2 /\ sess[1].closed /\ ~sess[2].closed
    /\ sess[1].data = Zeros(Len(header)) \o Body

\* an invocation that ran to its end with the image in place
RanToEnd == fpc \in {"exit0", "exit1"} /\ startImg

\* a full flash returns 0 only for an image as long as the second session,
\* and a full flash of a shorter image dies in the padding step
C36_FullFlashNeedsBlock ==
    /\ (fpc = "exit0" /\ opened) => ~ShortImage
    /\ (ShortImage /\ RanToEnd /\ startDiff) => DiedInPad

\* C36: a full flash returns 0 only if the image has at least as many bytes
\* as the header length rounded up to a whole block; a full flash of a
\* shorter image dies in the padding step, after the first session was
\* closed; and every later invocation with that image dies there too, so
\* that on a partition whose header differed at first, with no invocation cut
\* short, every invocation that runs to its end has died in the padding step
C36_ShortImageAlwaysDies ==
    /\ C36_FullFlashNeedsBlock
    /\ (ShortImage /\ initDiff /\ attempts = 0 /\ RanToEnd) => DiedInPad

====
